---- MODULE Spec2Model ----
(***************************************************************************)
(* messagely: the User data-access layer (models/user.js), the auth routes *)
(* (routes/auth.js) and the message routes, over a relational store with   *)
(* tables users(username PK, ...) and messages(id PK, from_username FK,    *)
(* to_username FK, ...).                                                   *)
(*                                                                         *)
(* Every db.query is one atomic step of the database.  A route handler is  *)
(* a sequence of such steps, one per await; handlers of different requests *)
(* interleave between awaits.  A statement that reads current_timestamp    *)
(* sees a clock value later than the statement before it: the statements   *)
(* of the one database client are separate transactions.                   *)
(***************************************************************************)
EXTENDS Integers, Sequences, FiniteSets, TLC

\* ---------------------------------------------------------------- bounds
MaxFlows == 2       \* auth-route requests (POST /register, POST /login) per behaviour
MaxMessages == 2    \* rows the messages table may hold
MaxClock == 5       \* last value of the database clock
MaxSalt == 1        \* bcrypt salts are drawn from 0..MaxSalt

\* ---------------------------------------------------------------- values
\* JS undefined (a field missing from the request body)
Undefined == "<undefined>"

\* SQL NULL of a timestamp column; timestamps of rows are >= 1
Null == 0

\* usernames and passwords requests carry
Usernames == {"a", "b"}
Passwords == {"p", "q"}

\* first_name / last_name / phone a registration for username u carries
FirstNameOf(u) == "F-" \o u
LastNameOf(u) == "L-" \o u
PhoneOf(u) == "1-" \o u

\* JS truthiness of a request field: undefined and "" are falsy
Truthy(v) == v /= Undefined /\ v /= ""

\* ---------------------------------------------------------------- errors
ExpressError(message, status) ==
    [kind |-> "ExpressError", message |-> message, status |-> status,
     code |-> ""]

\* the rejection of db.query on a violated constraint: an error object that
\* carries the SQLSTATE in .code and has no .status
DatabaseError(code) ==
    [kind |-> "DatabaseError", message |-> "constraint", status |-> 0,
     code |-> code]

\* the Error bcrypt.compare throws when data is missing
BcryptError ==
    [kind |-> "Error", message |-> "data and hash arguments required",
     status |-> 0, code |-> ""]

Unauthorized == [kind |-> "Unauthorized", message |-> "Unauthorized",
                 status |-> 401, code |-> ""]

\* the error kinds of the specification, as the code raises them
IsValidationError(e) == e = ExpressError("All fields are required", 400)
IsConflictError(e) == e.kind = "ExpressError" /\ e.status = 400
                        /\ e.message = "Username already exists"
IsAuthError(e) == e = ExpressError("Invalid username/password", 400)
IsNotFoundError(e) == e.kind = "ExpressError" /\ e.status = 404

Ok(v) == [ok |-> TRUE, value |-> v]
Fail(e) == [ok |-> FALSE, error |-> e]

\* ---------------------------------------------------------------- bcrypt
PwCode(pw) == CASE pw = "p" -> 1 [] pw = "q" -> 2 [] pw = "" -> 3 [] OTHER -> 4

\* the digest of a salted password: one-way, injective on (salt, password)
Digest(salt, pw) == 10 * (salt + 1) + PwCode(pw)

bcrypt_hash(pw, salt) == [salt |-> salt, digest |-> Digest(salt, pw)]

bcrypt_compare(pw, hash) == Digest(hash.salt, pw) = hash.digest

\* ---------------------------------------------------------------- state
VARIABLES
    users,      \* table users: username -> row
    messages,   \* table messages: sequence of rows, id = position (serial)
    now,        \* the database clock: the last current_timestamp handed out
    flows,      \* the auth-route requests: slot -> request state
    tokens,     \* usernames for which jwt.sign has produced a token
    result,     \* the store call or message request of the last step, if it was one
    plain       \* history: the password given at each user's registration

vars == <<users, messages, now, flows, tokens, result, plain>>

\* ------------------------------------------------------- the users table
Registered == DOMAIN users

\* the row INSERT INTO users ... VALUES ($1..$5, current_timestamp,
\* current_timestamp) stores at clock value t
NewUserRow(username, hashedPwd, first_name, last_name, phone, t) ==
    [username |-> username, password |-> hashedPwd,
     first_name |-> first_name, last_name |-> last_name, phone |-> phone,
     join_at |-> t, last_login_at |-> t]

\* the table after the INSERT of a row
InsertUser(row) ==
    [u \in Registered \cup {row.username} |->
        IF u = row.username THEN row ELSE users[u]]

\* the UPDATE with its SET clause lost: no row changes
UpdateLastLogin_unset(username, t) == users

\* the UPDATE setting join_at along with last_login_at
UpdateLastLogin_joinAt(username, t) ==
    [u \in Registered |->
        IF u = username
        THEN [users[u] EXCEPT !.last_login_at = t, !.join_at = t]
        ELSE users[u]]

\* UPDATE users SET last_login_at = current_timestamp WHERE username = $1
UpdateLastLogin(username, t) ==
    [u \in Registered |->
        IF u = username THEN [users[u] EXCEPT !.last_login_at = t]
        ELSE users[u]]

\* the public profile columns of a user row
Profile(row) ==
    [username |-> row.username, first_name |-> row.first_name,
     last_name |-> row.last_name, phone |-> row.phone]

\* ------------------------------------------------ User: pure operations
\* the guard of User.register with the phone test left out
FieldsPresent_noPhone(body) ==
    /\ Truthy(body.username)
    /\ Truthy(body.password)
    /\ Truthy(body.first_name)
    /\ Truthy(body.last_name)

\* the guard of User.register: every field is required
FieldsPresent(body) ==
    /\ Truthy(body.username)
    /\ Truthy(body.password)
    /\ Truthy(body.first_name)
    /\ Truthy(body.last_name)
    /\ Truthy(body.phone)

\* User.authenticate resolving true for every user that exists
User_authenticate_noCompare(username, password) ==
    IF username \notin Registered
    THEN Fail(ExpressError("Invalid username/password", 400))
    ELSE IF password = Undefined
    THEN Fail(BcryptError)
    ELSE Ok(TRUE)

\* User.authenticate(username, password)
User_authenticate(username, password) ==
    IF username \notin Registered
    THEN Fail(ExpressError("Invalid username/password", 400))
    ELSE IF password = Undefined
    THEN Fail(BcryptError)
    ELSE Ok(bcrypt_compare(password, users[username].password))

\* User.all()
User_all ==
    IF Registered = {}
    THEN Fail(ExpressError("No users found", 404))
    ELSE Ok({Profile(users[u]) : u \in Registered})

\* User.get(username)
User_get(username) ==
    IF username \notin Registered
    THEN Fail(ExpressError("No such user", 404))
    ELSE Ok([username |-> username,
             first_name |-> users[username].first_name,
             last_name |-> users[username].last_name,
             phone |-> users[username].phone,
             join_at |-> users[username].join_at,
             last_login_at |-> users[username].last_login_at])

\* messages AS m JOIN users AS u ON m.to_username = u.username
\* WHERE m.from_username = $1
FromRows(username) ==
    LET Sel(m) == m.from_username = username /\ m.to_username \in Registered
    IN  SelectSeq(messages, Sel)

\* messages AS m JOIN users AS u ON m.from_username = u.username
\* WHERE m.to_username = $1
ToRows(username) ==
    LET Sel(m) == m.to_username = username /\ m.from_username \in Registered
    IN  SelectSeq(messages, Sel)

\* User.messagesFrom with the profile columns read from the sender's row
User_messagesFrom_senderProfile(username) ==
    LET rows == FromRows(username)
        Row(m) == [id |-> m.id,
                   to_user |-> [username |-> m.to_username,
                                first_name |-> users[m.from_username].first_name,
                                last_name |-> users[m.from_username].last_name,
                                phone |-> users[m.from_username].phone],
                   body |-> m.body, sent_at |-> m.sent_at,
                   read_at |-> m.read_at]
    IN  IF rows = <<>>
        THEN Fail(ExpressError("No messages found from", 404))
        ELSE Ok([i \in 1..Len(rows) |-> Row(rows[i])])

\* User.messagesFrom(username)
User_messagesFrom(username) ==
    LET rows == FromRows(username)
        Row(m) == [id |-> m.id,
                   to_user |-> [username |-> m.to_username,
                                first_name |-> users[m.to_username].first_name,
                                last_name |-> users[m.to_username].last_name,
                                phone |-> users[m.to_username].phone],
                   body |-> m.body, sent_at |-> m.sent_at,
                   read_at |-> m.read_at]
    IN  IF rows = <<>>
        THEN Fail(ExpressError("No messages found from", 404))
        ELSE Ok([i \in 1..Len(rows) |-> Row(rows[i])])

\* User.messagesTo(username)
User_messagesTo(username) ==
    LET rows == ToRows(username)
        Row(m) == [id |-> m.id,
                   from_user |-> [username |-> m.from_username,
                                  first_name |-> users[m.from_username].first_name,
                                  last_name |-> users[m.from_username].last_name,
                                  phone |-> users[m.from_username].phone],
                   body |-> m.body, sent_at |-> m.sent_at,
                   read_at |-> m.read_at]
    IN  IF rows = <<>>
        THEN Fail(ExpressError("No messages found to", 404))
        ELSE Ok([i \in 1..Len(rows) |-> Row(rows[i])])

\* ------------------------------------------------------ request bodies
Body(username, password, first_name, last_name, phone) ==
    [username |-> username, password |-> password, first_name |-> first_name,
     last_name |-> last_name, phone |-> phone]

\* a complete registration payload for username u with password pw
ValidBody(u, pw) == Body(u, pw, FirstNameOf(u), LastNameOf(u), PhoneOf(u))

\* registration payloads with exactly one field empty ("") or missing
InvalidBodies ==
    LET b == ValidBody("a", "p")
    IN  {[b EXCEPT !.username = ""], [b EXCEPT !.password = Undefined],
         [b EXCEPT !.first_name = ""], [b EXCEPT !.last_name = Undefined],
         [b EXCEPT !.phone = ""]}

RegisterBodies ==
    {ValidBody(u, pw) : u \in Usernames, pw \in Passwords} \cup InvalidBodies

\* the {username, password} bodies of POST /login
LoginBodies ==
    {Body(u, pw, Undefined, Undefined, Undefined) :
        u \in Usernames, pw \in Passwords \cup {Undefined}}

\* -------------------------------------------------- auth-route requests
Slots == 1..MaxFlows

NoError == [kind |-> "", message |-> "", status |-> 0, code |-> ""]

\* what a request has answered: nothing yet, {token}, or next(err)
NoResponse == [sent |-> FALSE, token |-> Undefined, error |-> NoError]
TokenResponse(username) == [sent |-> TRUE, token |-> username, error |-> NoError]
ErrorResponse(e) == [sent |-> TRUE, token |-> Undefined, error |-> e]

IdleFlow ==
    [route |-> "none", pc |-> "idle",
     body |-> Body(Undefined, Undefined, Undefined, Undefined, Undefined),
     log |-> <<>>, resp |-> NoResponse, prev |-> Null]

\* slots take requests in order
CanStart(i) ==
    /\ flows[i].pc = "idle"
    /\ IF i = 1 THEN TRUE ELSE flows[i - 1].pc /= "idle"

NoCall == [op |-> "none", user |-> Undefined, args |-> <<>>, out |-> Ok(TRUE)]

Init ==
    /\ users = <<>>
    /\ messages = <<>>
    /\ now = 0
    /\ flows = [i \in Slots |-> IdleFlow]
    /\ tokens = {}
    /\ result = NoCall
    /\ plain = <<>>

\* --------------------------------------------------- the database layer
\* db.query of the INSERT INTO users: the primary key rejects a duplicate
\* username with SQLSTATE 23505, otherwise the row is returned
QueryInsertUser(username) ==
    IF username \in Registered
    THEN Fail(DatabaseError("23505"))
    ELSE Ok(username)

\* .code of the result object a resolved db.query returns: it has none
ResultCode(q) == ""

\* User.register after its db.query has settled as q
RegisterOutcome(q, row) ==
    IF ~q.ok THEN Fail(q.error)
    ELSE IF ResultCode(q) = "23505"
    THEN Fail(ExpressError("Username already exists", 400))
    ELSE Ok([username |-> row.username, password |-> row.password,
             first_name |-> row.first_name, last_name |-> row.last_name,
             phone |-> row.phone])

\* User.updateLoginTimestamp(username) settled at clock value t
UpdateOutcome(username, t) ==
    IF username \notin Registered
    THEN Fail(ExpressError("No such user", 404))
    ELSE Ok([username |-> username, last_login_at |-> t])

\* ------------------------------------------------------- POST /register
\* the request arrives; User.register validates the fields and awaits
\* bcrypt.hash
RegisterStart(i, body) ==
    /\ CanStart(i)
    /\ IF ~FieldsPresent(body)
       THEN flows' = [flows EXCEPT ![i] =
                [@ EXCEPT !.route = "register", !.pc = "done", !.body = body,
                          !.log = <<"register_failed">>,
                          !.resp = ErrorResponse(
                              ExpressError("All fields are required", 400))]]
       ELSE flows' = [flows EXCEPT ![i] =
                [@ EXCEPT !.route = "register", !.pc = "insert", !.body = body]]
    /\ result' = NoCall
    /\ UNCHANGED <<users, messages, now, tokens, plain>>

\* bcrypt.hash has resolved with a hash under a fresh salt and the INSERT
\* settles; on success the route signs the token and calls
\* User.updateLoginTimestamp
RegisterInsertWith(i, salt) ==
    LET f == flows[i]
        row == NewUserRow(f.body.username, bcrypt_hash(f.body.password, salt),
                          f.body.first_name, f.body.last_name, f.body.phone,
                          now + 1)
        out == RegisterOutcome(QueryInsertUser(f.body.username), row)
    IN  /\ f.route = "register" /\ f.pc = "insert"
        /\ IF out.ok
           THEN /\ now < MaxClock
                /\ now' = now + 1
                /\ users' = InsertUser(row)
                /\ plain' = [u \in Registered \cup {row.username} |->
                                IF u = row.username THEN f.body.password
                                ELSE plain[u]]
                /\ tokens' = tokens \cup {f.body.username}
                /\ flows' = [flows EXCEPT ![i] =
                        [@ EXCEPT !.pc = "update",
                                  !.log = <<"register", "sign">>]]
           ELSE /\ flows' = [flows EXCEPT ![i] =
                        [@ EXCEPT !.pc = "done",
                                  !.log = <<"register_failed">>,
                                  !.resp = ErrorResponse(out.error)]]
                /\ UNCHANGED <<users, now, plain, tokens>>
        /\ result' = NoCall
        /\ UNCHANGED messages

RegisterInsert(i) == \E salt \in 0..MaxSalt : RegisterInsertWith(i, salt)

\* POST /register answering with the token without calling
\* User.updateLoginTimestamp
RegisterUpdate_skipped(i) ==
    LET f == flows[i]
    IN  /\ f.route = "register" /\ f.pc = "update"
        /\ flows' = [flows EXCEPT ![i] =
                [@ EXCEPT !.pc = "done", !.log = f.log \o <<"respond">>,
                          !.resp = TokenResponse(f.body.username)]]
        /\ result' = NoCall
        /\ UNCHANGED <<users, messages, now, tokens, plain>>

\* the UPDATE of User.updateLoginTimestamp settles; res.json({token})
RegisterUpdate(i) ==
    LET f == flows[i]
        out == UpdateOutcome(f.body.username, now + 1)
    IN  /\ f.route = "register" /\ f.pc = "update"
        /\ IF out.ok
           THEN /\ now < MaxClock
                /\ now' = now + 1
                /\ users' = UpdateLastLogin(f.body.username, now + 1)
                /\ flows' = [flows EXCEPT ![i] =
                        [@ EXCEPT !.pc = "done",
                                  !.log = f.log \o <<"update", "respond">>,
                                  !.resp = TokenResponse(f.body.username)]]
           ELSE /\ flows' = [flows EXCEPT ![i] =
                        [@ EXCEPT !.pc = "done",
                                  !.resp = ErrorResponse(out.error)]]
                /\ UNCHANGED <<users, now>>
        /\ result' = NoCall
        /\ UNCHANGED <<messages, tokens, plain>>

\* ---------------------------------------------------------- POST /login
\* POST /login going on whenever User.authenticate did not throw
LoginAuthenticate_noTest(i, body) ==
    LET out == User_authenticate(body.username, body.password)
        prev == IF body.username \in Registered
                THEN users[body.username].last_login_at ELSE Null
        ev == IF ~out.ok THEN "authenticate_failed"
              ELSE IF out.value THEN "authenticate_true"
              ELSE "authenticate_false"
    IN  /\ CanStart(i)
        /\ flows' = [flows EXCEPT ![i] =
             IF ~out.ok
             THEN [@ EXCEPT !.route = "login", !.pc = "done", !.body = body,
                            !.log = <<ev>>, !.prev = prev,
                            !.resp = ErrorResponse(out.error)]
             ELSE [@ EXCEPT !.route = "login", !.pc = "update", !.body = body,
                            !.log = <<ev>>, !.prev = prev]]
        /\ result' = NoCall
        /\ UNCHANGED <<users, messages, now, tokens, plain>>

\* the request arrives; User.authenticate runs its SELECT and bcrypt.compare
LoginAuthenticate(i, body) ==
    LET out == User_authenticate(body.username, body.password)
        prev == IF body.username \in Registered
                THEN users[body.username].last_login_at ELSE Null
        ev == IF ~out.ok THEN "authenticate_failed"
              ELSE IF out.value THEN "authenticate_true"
              ELSE "authenticate_false"
    IN  /\ CanStart(i)
        /\ flows' = [flows EXCEPT ![i] =
             IF ~out.ok
             THEN [@ EXCEPT !.route = "login", !.pc = "done", !.body = body,
                            !.log = <<ev>>, !.prev = prev,
                            !.resp = ErrorResponse(out.error)]
             ELSE IF out.value
             THEN [@ EXCEPT !.route = "login", !.pc = "update", !.body = body,
                            !.log = <<ev>>, !.prev = prev]
             ELSE [@ EXCEPT !.route = "login", !.pc = "done", !.body = body,
                            !.log = <<ev>>, !.prev = prev,
                            !.resp = ErrorResponse(
                                ExpressError("Invalid username/password", 400))]]
        /\ result' = NoCall
        /\ UNCHANGED <<users, messages, now, tokens, plain>>

\* the UPDATE of User.updateLoginTimestamp settles; jwt.sign; res.json
LoginUpdate(i) ==
    LET f == flows[i]
        out == UpdateOutcome(f.body.username, now + 1)
    IN  /\ f.route = "login" /\ f.pc = "update"
        /\ IF out.ok
           THEN /\ now < MaxClock
                /\ now' = now + 1
                /\ users' = UpdateLastLogin(f.body.username, now + 1)
                /\ tokens' = tokens \cup {f.body.username}
                /\ flows' = [flows EXCEPT ![i] =
                        [@ EXCEPT !.pc = "done",
                                  !.log = f.log \o <<"update", "sign", "respond">>,
                                  !.resp = TokenResponse(f.body.username)]]
           ELSE /\ flows' = [flows EXCEPT ![i] =
                        [@ EXCEPT !.pc = "done",
                                  !.resp = ErrorResponse(out.error)]]
                /\ UNCHANGED <<users, now, tokens>>
        /\ result' = NoCall
        /\ UNCHANGED <<messages, plain>>

\* ------------------------------------------- User store, called directly
Call(op, user, args, out) == [op |-> op, user |-> user, args |-> args, out |-> out]

Authenticate(username, password) ==
    /\ result' = Call("authenticate", Undefined, <<username, password>>,
                      User_authenticate(username, password))
    /\ UNCHANGED <<users, messages, now, flows, tokens, plain>>

\* User.updateLoginTimestamp(username)
UpdateLoginTimestamp(username) ==
    LET out == UpdateOutcome(username, now + 1)
    IN  /\ IF out.ok
           THEN /\ now < MaxClock
                /\ now' = now + 1
                /\ users' = UpdateLastLogin(username, now + 1)
           ELSE UNCHANGED <<users, now>>
        /\ result' = Call("updateLoginTimestamp", Undefined, <<username>>, out)
        /\ UNCHANGED <<messages, flows, tokens, plain>>

All ==
    /\ result' = Call("all", Undefined, <<>>, User_all)
    /\ UNCHANGED <<users, messages, now, flows, tokens, plain>>

Get(username) ==
    /\ result' = Call("get", Undefined, <<username>>, User_get(username))
    /\ UNCHANGED <<users, messages, now, flows, tokens, plain>>

MessagesFrom(username) ==
    /\ result' = Call("messagesFrom", Undefined, <<username>>,
                      User_messagesFrom(username))
    /\ UNCHANGED <<users, messages, now, flows, tokens, plain>>

MessagesTo(username) ==
    /\ result' = Call("messagesTo", Undefined, <<username>>,
                      User_messagesTo(username))
    /\ UNCHANGED <<users, messages, now, flows, tokens, plain>>

\* ------------------------------------------------------ the Message store
MessageIds == 1..Len(messages)

\* Message.create({from_username, to_username, body}) at clock value t:
\* the foreign keys of messages reject a username that is no user
Message_create(from_username, to_username, body, t) ==
    IF from_username \notin Registered \/ to_username \notin Registered
    THEN Fail(ExpressError("No such user", 400))
    ELSE Ok([id |-> Len(messages) + 1, from_username |-> from_username,
             to_username |-> to_username, body |-> body, sent_at |-> t])

\* the row Message.create inserts
NewMessageRow(m) ==
    [id |-> m.id, from_username |-> m.from_username,
     to_username |-> m.to_username, body |-> m.body, sent_at |-> m.sent_at,
     read_at |-> Null]

\* Message.markRead(id) at clock value t: sets read_at if it is unset
Message_markRead(id, t) ==
    IF id \notin MessageIds
    THEN Fail(ExpressError("No such message", 404))
    ELSE Ok([id |-> id,
             read_at |-> IF messages[id].read_at = Null THEN t
                         ELSE messages[id].read_at])

\* ------------------------------------------------------- the Access Guard
\* the identities a request can carry: a verified token's username, or none
Requesters == tokens \cup {Undefined}

ensureLoggedIn(user) == user /= Undefined

\* the ownership check of a message operation
ensureCorrectUser(op, user, target) ==
    CASE op = "POST /" -> target = user
      [] op = "POST /:id/read" ->
            IF target \in MessageIds THEN messages[target].to_username = user
            ELSE TRUE
      [] OTHER -> FALSE

\* ----------------------------------------------------- the message routes
\* POST / with ensureCorrectUser left out of the route
PostMessage_noGuard(user, from_username, to_username) ==
    LET allowed == ensureLoggedIn(user)
        out == IF allowed
               THEN Message_create(from_username, to_username, "hi", now + 1)
               ELSE Fail(Unauthorized)
    IN  /\ IF out.ok
           THEN /\ now < MaxClock
                /\ Len(messages) < MaxMessages
                /\ now' = now + 1
                /\ messages' = Append(messages, NewMessageRow(out.value))
           ELSE UNCHANGED <<messages, now>>
        /\ result' = Call("POST /", user, <<from_username, to_username>>, out)
        /\ UNCHANGED <<users, flows, tokens, plain>>

\* POST / with req.user = user and req.body = {from_username, to_username, body}
PostMessage(user, from_username, to_username) ==
    LET allowed == ensureLoggedIn(user)
                     /\ ensureCorrectUser("POST /", user, from_username)
        out == IF allowed
               THEN Message_create(from_username, to_username, "hi", now + 1)
               ELSE Fail(Unauthorized)
    IN  /\ IF out.ok
           THEN /\ now < MaxClock
                /\ Len(messages) < MaxMessages
                /\ now' = now + 1
                /\ messages' = Append(messages, NewMessageRow(out.value))
           ELSE UNCHANGED <<messages, now>>
        /\ result' = Call("POST /", user, <<from_username, to_username>>, out)
        /\ UNCHANGED <<users, flows, tokens, plain>>

\* POST /:id/read with ensureCorrectUser left out of the route
ReadMessage_noGuard(user, id) ==
    LET allowed == ensureLoggedIn(user)
        out == IF allowed THEN Message_markRead(id, now + 1)
               ELSE Fail(Unauthorized)
    IN  /\ IF out.ok
           THEN /\ now < MaxClock
                /\ now' = now + 1
                /\ messages' = [messages EXCEPT ![id].read_at = out.value.read_at]
           ELSE UNCHANGED <<messages, now>>
        /\ result' = Call("POST /:id/read", user, <<id>>, out)
        /\ UNCHANGED <<users, flows, tokens, plain>>

\* POST /:id/read with req.user = user
ReadMessage(user, id) ==
    LET allowed == ensureLoggedIn(user)
                     /\ ensureCorrectUser("POST /:id/read", user, id)
        out == IF allowed THEN Message_markRead(id, now + 1)
               ELSE Fail(Unauthorized)
    IN  /\ IF out.ok
           THEN /\ now < MaxClock
                /\ now' = now + 1
                /\ messages' = [messages EXCEPT ![id].read_at = out.value.read_at]
           ELSE UNCHANGED <<messages, now>>
        /\ result' = Call("POST /:id/read", user, <<id>>, out)
        /\ UNCHANGED <<users, flows, tokens, plain>>

\* the response of request i has gone out and its slot takes the next request
Finish(i) ==
    /\ flows[i].pc = "done"
    /\ flows' = [flows EXCEPT ![i] = IdleFlow]
    /\ result' = NoCall
    /\ UNCHANGED <<users, messages, now, tokens, plain>>

\* the auth routes, their requests interleaving between awaits
Next ==
    \/ \E i \in Slots, body \in RegisterBodies : RegisterStart(i, body)
    \/ \E i \in Slots : RegisterInsert(i)
    \/ \E i \in Slots : RegisterUpdate(i)
    \/ \E i \in Slots, body \in LoginBodies : LoginAuthenticate(i, body)
    \/ \E i \in Slots : LoginUpdate(i)

Spec == Init /\ [][Next]_vars

\* auth-route requests one after another, and the User store called directly
NextStore ==
    \/ \E u \in Usernames, pw \in Passwords : RegisterStart(1, ValidBody(u, pw))
    \/ RegisterInsert(1)
    \/ RegisterUpdate(1)
    \/ \E body \in LoginBodies : LoginAuthenticate(1, body)
    \/ LoginUpdate(1)
    \/ Finish(1)
    \/ \E u \in Usernames, pw \in Passwords \cup {"", Undefined} :
            Authenticate(u, pw)
    \/ \E u \in Usernames : UpdateLoginTimestamp(u)
    \/ All
    \/ \E u \in Usernames : Get(u)
    \/ \E u \in Usernames : MessagesFrom(u)
    \/ \E u \in Usernames : MessagesTo(u)

SpecStore == Init /\ [][NextStore]_vars

\* registrations one after another (the password and its salt, which play no
\* part in messages, fixed), the message routes and the message queries of the
\* User store
NextMsg ==
    \/ \E u \in Usernames : RegisterStart(1, ValidBody(u, "p"))
    \/ RegisterInsertWith(1, 0)
    \/ RegisterUpdate(1)
    \/ Finish(1)
    \/ \E u \in Usernames : MessagesFrom(u)
    \/ \E u \in Usernames : MessagesTo(u)
    \/ \E user \in Requesters, from \in Usernames \cup {Undefined},
          to \in Usernames : PostMessage(user, from, to)
    \/ \E user \in Requesters, id \in 1..MaxMessages : ReadMessage(user, id)

SpecMsg == Init /\ [][NextMsg]_vars

\* ================================================================ claims
Events(i) == {flows[i].log[k] : k \in 1..Len(flows[i].log)}

\* event a occurs before event b in the log of request i
Before(i, a, b) ==
    \E j, k \in 1..Len(flows[i].log) :
        j < k /\ flows[i].log[j] = a /\ flows[i].log[k] = b

\* some field of a registration payload is empty or missing
MissingField(body) == \E k \in DOMAIN body : body[k] \in {"", Undefined}

\* the POST /register requests for username u whose User.register has settled
RegisterCalls(u) ==
    {i \in Slots : /\ flows[i].route = "register"
                   /\ ~MissingField(flows[i].body)
                   /\ flows[i].body.username = u
                   /\ flows[i].log /= <<>>}

RegisterSucceeded(i) == flows[i].log[1] = "register"

\* C1: of the User.register calls that carry one username, run in any
\* interleaving, exactly one succeeds and every other one fails with
\* ConflictError
C1_DuplicateRegisterConflict ==
    \A u \in Usernames :
        RegisterCalls(u) /= {} =>
            /\ Cardinality({i \in RegisterCalls(u) : RegisterSucceeded(i)}) = 1
            /\ \A i \in RegisterCalls(u) :
                  ~RegisterSucceeded(i) => IsConflictError(flows[i].resp.error)

\* C2: User.register with a required field empty or missing fails with
\* ValidationError, writes no user record and takes no further step
C2_InvalidRegisterRejected ==
    [][\A i \in Slots :
          (/\ flows[i].pc = "idle"
           /\ flows'[i].route = "register"
           /\ MissingField(flows'[i].body))
          => (/\ users' = users
              /\ flows'[i].pc = "done"
              /\ IsValidationError(flows'[i].resp.error)
              /\ flows'[i].resp.token = Undefined)]_vars

C2_Witness ==
    \E i \in Slots :
        /\ flows[i].route = "register"
        /\ MissingField(flows[i].body)
        /\ flows[i].pc = "done"
        /\ Registered /= {}

\* what User.authenticate is to answer, from the passwords given at registration
ExpectedAuthenticate(username, password) ==
    IF username \notin DOMAIN plain
    THEN Fail(ExpressError("Invalid username/password", 400))
    ELSE Ok(password = plain[username])

C4_LoginTokenOrder ==
    \A i \in Slots :
        flows[i].route = "login" =>
            /\ ("sign" \in Events(i) \/ flows[i].resp.token /= Undefined) =>
                  /\ flows[i].log = <<"authenticate_true", "update", "sign", "respond">>
                  /\ flows[i].resp.token = flows[i].body.username
                  /\ flows[i].body.username \in DOMAIN plain
                  /\ flows[i].body.password = plain[flows[i].body.username]
                  /\ users[flows[i].body.username].last_login_at > flows[i].prev
            /\ (flows[i].log /= <<>> /\ flows[i].log[1] = "authenticate_false") =>
                  /\ flows[i].log = <<"authenticate_false">>
                  /\ flows[i].pc = "done"
                  /\ IsAuthError(flows[i].resp.error)
                  /\ flows[i].resp.token = Undefined

C4_Witness ==
    \E i \in Slots :
        /\ flows[i].route = "login"
        /\ flows[i].resp.token = flows[i].body.username
        /\ flows[i].body.username \in tokens
        /\ "update" \in Events(i)

\* C5: in POST /register the steps happen in the order User.register,
\* updateLoginTimestamp, token issuance: no token is issued before
\* updateLoginTimestamp has completed
C5_TokenAfterUpdate ==
    \A i \in Slots :
        (flows[i].route = "register" /\ "sign" \in Events(i))
            => Before(i, "update", "sign")

\* C5 as amended: the order is User.register, token signing,
\* updateLoginTimestamp, response; the token reaches the caller only after
\* updateLoginTimestamp has completed; when User.register fails neither
\* updateLoginTimestamp is called nor a token signed
C5_RegisterOrder ==
    \A i \in Slots :
        flows[i].route = "register" =>
            /\ flows[i].log \in {<<>>, <<"register_failed">>,
                                 <<"register", "sign">>,
                                 <<"register", "sign", "update", "respond">>}
            /\ flows[i].resp.token /= Undefined =>
                  /\ flows[i].log = <<"register", "sign", "update", "respond">>
                  /\ flows[i].resp.token = flows[i].body.username
                  /\ users[flows[i].body.username].last_login_at
                        > users[flows[i].body.username].join_at
            /\ flows[i].log = <<"register_failed">> =>
                  /\ flows[i].pc = "done"
                  /\ flows[i].resp.token = Undefined
                  /\ flows[i].resp.error /= NoError
            /\ flows[i].body.username \in tokens =>
                  flows[i].body.username \in Registered

C5_Witness ==
    \E i, j \in Slots :
        /\ flows[i].route = "register" /\ flows[i].resp.token /= Undefined
        /\ flows[j].route = "register" /\ flows[j].log = <<"register_failed">>
        /\ flows[j].body.username = flows[i].body.username

\* C6: after every successful login, User.get(username).last_login_at is
\* strictly greater than the value it had immediately before that login
C6_LastLoginIncreases ==
    \A i \in Slots :
        (flows[i].route = "login" /\ flows[i].resp.token /= Undefined) =>
            /\ User_get(flows[i].body.username).ok
            /\ flows[i].prev /= Null
            /\ User_get(flows[i].body.username).value.last_login_at
                  > flows[i].prev

C6_Witness ==
    \E i \in Slots :
        /\ flows[i].route = "login"
        /\ flows[i].resp.token /= Undefined
        /\ flows[i].prev > users[flows[i].body.username].join_at

SubmittedProfile(u) ==
    [username |-> u, first_name |-> FirstNameOf(u),
     last_name |-> LastNameOf(u), phone |-> PhoneOf(u)]

SentBy(u) == {id \in MessageIds : messages[id].from_username = u}
SentTo(u) == {id \in MessageIds : messages[id].to_username = u}

\* the list out holds one entry for each message of ids and no other, each
\* with the message's columns
ExactlyMessages(out, ids) ==
    /\ Len(out) = Cardinality(ids)
    /\ {out[k].id : k \in 1..Len(out)} = ids
    /\ \A k \in 1..Len(out) :
          /\ out[k].body = messages[out[k].id].body
          /\ out[k].sent_at = messages[out[k].id].sent_at
          /\ out[k].read_at = messages[out[k].id].read_at

FromListExact(u, out) ==
    /\ ExactlyMessages(out, SentBy(u))
    /\ \A k \in 1..Len(out) :
          out[k].to_user = SubmittedProfile(messages[out[k].id].to_username)

ToListExact(u, out) ==
    /\ ExactlyMessages(out, SentTo(u))
    /\ \A k \in 1..Len(out) :
          out[k].from_user = SubmittedProfile(messages[out[k].id].from_username)

\* C8: after any sequence of registrations and message creations,
\* User.messagesFrom(A) returns exactly the messages whose from_username is A
\* with the recipient's profile, and User.messagesTo(B) exactly those whose
\* to_username is B with the sender's profile
C8_MessageListsReturned ==
    /\ (result.op = "messagesFrom" /\ result.args[1] \in Registered) =>
          /\ result.out.ok
          /\ FromListExact(result.args[1], result.out.value)
    /\ (result.op = "messagesTo" /\ result.args[1] \in Registered) =>
          /\ result.out.ok
          /\ ToListExact(result.args[1], result.out.value)

\* C8 as amended: when at least one such message exists the lists are exactly
\* those messages; when none exists the call fails with NotFoundError
C8_MessageListsExact ==
    \A u \in Usernames :
        /\ IF SentBy(u) = {}
           THEN /\ ~User_messagesFrom(u).ok
                /\ IsNotFoundError(User_messagesFrom(u).error)
           ELSE /\ User_messagesFrom(u).ok
                /\ FromListExact(u, User_messagesFrom(u).value)
        /\ IF SentTo(u) = {}
           THEN /\ ~User_messagesTo(u).ok
                /\ IsNotFoundError(User_messagesTo(u).error)
           ELSE /\ User_messagesTo(u).ok
                /\ ToListExact(u, User_messagesTo(u).value)
        /\ (result.op = "messagesFrom" /\ result.args = <<u>>)
              => result.out = User_messagesFrom(u)
        /\ (result.op = "messagesTo" /\ result.args = <<u>>)
              => result.out = User_messagesTo(u)

C8_Witness ==
    /\ result.op = "messagesFrom"
    /\ result.out.ok
    /\ Len(messages) = 2
    /\ Len(result.out.value) = 1
    /\ result.out.value[1].to_user.username /= result.args[1]

\* C9: the join_at of an existing user never changes, whatever operation runs
C9_JoinAtImmutable ==
    [][\A u \in Registered :
          /\ u \in DOMAIN users'
          /\ users'[u].join_at = users[u].join_at]_vars

C9_Witness ==
    \E i \in Slots :
        /\ flows[i].route = "login"
        /\ flows[i].resp.token /= Undefined
        /\ result.op = "updateLoginTimestamp"
        /\ result.out.ok
        /\ result.args = <<flows[i].body.username>>
        /\ users[flows[i].body.username].last_login_at
              > users[flows[i].body.username].join_at + 2

====
